---- MODULE Spec2Model ----
(***************************************************************************)
(* Model of src/src/gen-commit.ts (aic): one run of GitCommitGenerator.    *)
(*                                                                         *)
(* Text is a sequence of one-character strings.  A message written to a    *)
(* stream is a sequence of lines; a line is a record with a `text` field   *)
(* and, when the line interpolates a value, a `num` or `value` field.      *)
(* The failure glyph that starts the error texts of the source is written  *)
(* "[x] " here, the other glyphs likewise in ASCII.                        *)
(*                                                                         *)
(* The run blocks at four external calls (git diff, HTTP POST, the         *)
(* readline question, git commit); each action below is the code that runs *)
(* from the return of one of them up to the issue of the next.             *)
(***************************************************************************)
EXTENDS Naturals, Sequences, FiniteSets

VARIABLES
    pc,            \* position of the run
    apiKey,        \* process.env.OPENAI_API_KEY after dotenv.config()
    promptTokens,  \* encode(this.promptTemplate).length
    diff,          \* stdout of `git diff --cached` (text and its token count)
    response,      \* outcome of axios.post
    commitMessage, \* CommitMessage.content
    answer,        \* the line read by rl.question
    calls,         \* external calls issued so far, in order
    stdout,        \* console.log output, in order
    stderr,        \* console.error / uncaught-exception output, in order
    exitCode       \* <<>> while the process runs, then <<status>>

vars == <<pc, apiKey, promptTokens, diff, response, commitMessage, answer,
          calls, stdout, stderr, exitCode>>

(***************************************************************************)
(* Bounds of the model.                                                    *)
(***************************************************************************)
MaxDiffLen == 2
MaxMsgLen == 3
MaxAnswerLen == 2
MaxPromptTokens == 2
MaxOver == 1

(***************************************************************************)
(* Program constants.                                                      *)
(***************************************************************************)
maxContextLength == 16385

(***************************************************************************)
(* Text helpers.                                                           *)
(***************************************************************************)
SeqsUpTo(S, n) == UNION {[1..k -> S] : k \in 0..n}

Range(s) == {s[i] : i \in 1..Len(s)}

WhiteSpace == {" ", "\t"}

RECURSIVE TrimStart(_)
TrimStart(s) ==
    IF s # <<>> /\ Head(s) \in WhiteSpace THEN TrimStart(Tail(s)) ELSE s

RECURSIVE TrimEnd(_)
TrimEnd(s) ==
    IF s # <<>> /\ s[Len(s)] \in WhiteSpace
    THEN TrimEnd(SubSeq(s, 1, Len(s) - 1))
    ELSE s

\* String.prototype.trim
Trim(s) == TrimEnd(TrimStart(s))

LowerChar(c) ==
    CASE c = "Y" -> "y"
      [] c = "N" -> "n"
      [] c = "E" -> "e"
      [] c = "S" -> "s"
      [] OTHER -> c

\* String.prototype.toLowerCase
ToLowerCase(s) == [i \in 1..Len(s) |-> LowerChar(s[i])]

(***************************************************************************)
(* Inputs the environment can supply.                                      *)
(***************************************************************************)
ApiKeys ==
    { [defined |-> FALSE, value |-> ""],
      [defined |-> TRUE, value |-> ""],
      [defined |-> TRUE, value |-> "sk-test"] }

DiffChars == {" ", "+"}

\* A staged diff: its text and encode(text).length.  The empty text has no
\* tokens; any other text has at least one: a count of the size of the
\* text, or one next to the largest count the guard lets through.
Diffs(p) ==
    {[content |-> <<>>, tokens |-> 0]} \cup
    { [content |-> c, tokens |-> n] :
        c \in SeqsUpTo(DiffChars, MaxDiffLen) \ {<<>>},
        n \in {1} \cup
              ((maxContextLength - p - MaxOver)..(maxContextLength - p + MaxOver)) }

MsgChars == {" ", "a", "\"", "\\"}

Contents == SeqsUpTo(MsgChars, MaxMsgLen)

OtherCandidate == [message |-> [content |-> <<"b">>]]

\* response.data.choices of a successful response
ChoiceLists ==
    {<<>>} \cup
    {<<[message |-> [content |-> c]]>> : c \in Contents} \cup
    {<<[message |-> [content |-> c]], OtherCandidate>> : c \in SeqsUpTo(MsgChars, 1)}

Statuses == {400, 401, 500}

\* error.response.data
Payloads ==
    { [type |-> "undefined"],
      [type |-> "string", text |-> <<>>],
      [type |-> "string", text |-> <<"B", "a", "d">>],
      [type |-> "object", hasError |-> FALSE, code |-> ""],
      [type |-> "object", hasError |-> TRUE, code |-> "invalid_api_key"],
      [type |-> "object", hasError |-> TRUE, code |-> "context_length_exceeded"] }

\* AxiosError.message of a request that got an error response
StatusMessage(status) ==
    [text |-> "Request failed with status code ", num |-> status]

Outcomes ==
    { [kind |-> "ok", choices |-> ch] : ch \in ChoiceLists } \cup
    { [kind |-> "AxiosError", hasResponse |-> TRUE, status |-> s, data |-> d,
       message |-> StatusMessage(s)] : s \in Statuses, d \in Payloads } \cup
    { [kind |-> "AxiosError", hasResponse |-> FALSE, status |-> 0,
       data |-> [type |-> "undefined"],
       message |-> [text |-> "getaddrinfo ENOTFOUND api.openai.com"]],
      [kind |-> "Error", message |-> [text |-> "socket hang up"]],
      [kind |-> "thrown" ] }

AnswerChars == {"y", "Y", " "}

Answers ==
    SeqsUpTo(AnswerChars, MaxAnswerLen) \cup
    { <<"n">>, <<"N">>, <<"y", "e", "s">>, <<"Y", "E", "S">> }

NoDiff == [content |-> <<>>, tokens |-> 0]
NoResponse == [kind |-> "none"]
NoMessage == <<>>
NoAnswer == <<"?">>

(***************************************************************************)
(* Messages.                                                               *)
(***************************************************************************)
MissingKeyMessage ==
    << [text |-> "[x] OPENAI_API_KEY is not set. Please export it in your shell config."] >>

TooLargeHeader ==
    [text |-> "[x] The staged changes are too large for the model to process."]

SmallerChunksAdvice ==
    [text |-> "Please try committing your changes in smaller chunks."]

NoStagedNotice ==
    << [text |-> "(!) No staged changes found. Stage some files first."] >>

CancelledNotice == << [text |-> "Commit cancelled."] >>

SuggestedHeader == << [text |-> ""], [text |-> "Suggested commit message:"], [text |-> ""] >>

\* the Error thrown by checkContextLength
GuardError(totalTokens, diffTokens) ==
    << TooLargeHeader,
       [text |-> "- Total tokens: ", num |-> totalTokens],
       [text |-> "- Maximum allowed: ", num |-> maxContextLength],
       [text |-> "- Diff tokens: ", num |-> diffTokens],
       [text |-> ""],
       SmallerChunksAdvice >>

\* the Error thrown for a provider-reported context overflow
ProviderTooLargeError == << TooLargeHeader, SmallerChunksAdvice >>

(***************************************************************************)
(* Init: the process has been started and nothing has run yet.             *)
(***************************************************************************)
Init ==
    /\ pc = "Start"
    /\ apiKey \in ApiKeys
    /\ promptTokens \in 1..MaxPromptTokens
    /\ diff = NoDiff
    /\ response = NoResponse
    /\ commitMessage = NoMessage
    /\ answer = NoAnswer
    /\ calls = <<>>
    /\ stdout = <<>>
    /\ stderr = <<>>
    /\ exitCode = <<>>

\* variant: the catch block prints and lets the process end normally
Fail_NoExit(message) ==
    /\ stderr' = Append(stderr, message)
    /\ exitCode' = <<0>>
    /\ pc' = "Failed"

\* run()'s catch block: console.error(error.message); process.exit(1)
Fail(message) ==
    /\ stderr' = Append(stderr, message)
    /\ exitCode' = <<1>>
    /\ pc' = "Failed"

\* variant: only an undefined key is refused
MissingKey_UndefinedOnly(key) == ~key.defined

\* constructor: !apiKey
MissingKey(key) == ~key.defined \/ key.value = ""

\* Entry point: new GitCommitGenerator().run().  The constructor throws
\* outside any handler when the key is missing (the process dies with the
\* message on stderr and status 1); otherwise run() starts and calls
\* getStagedDiff.
Construct ==
    /\ pc = "Start"
    /\ IF MissingKey(apiKey)
       THEN /\ stderr' = Append(stderr, MissingKeyMessage)
            /\ exitCode' = <<1>>
            /\ pc' = "Crashed"
            /\ UNCHANGED calls
       ELSE /\ calls' = Append(calls, [call |-> "git diff --cached"])
            /\ pc' = "AwaitDiff"
            /\ UNCHANGED <<stderr, exitCode>>
    /\ UNCHANGED <<apiKey, promptTokens, diff, response, commitMessage, answer, stdout>>

\* variant: emptiness tested without trimming
IsEmptyDiff_NoTrim(content) == content = <<>>

\* getStagedDiff: !content.trim()
IsEmptyDiff(content) == Trim(content) = <<>>

\* variant: a total equal to the ceiling is rejected too
ExceedsContext_AtLeast(totalTokens) == totalTokens >= maxContextLength

\* checkContextLength: totalTokens > this.openaiConfig.maxContextLength
ExceedsContext(totalTokens) == totalTokens > maxContextLength

GitDiffFailure == [text |-> "Command failed: git diff --cached"]

GitCommitFailure == [text |-> "Command failed: git commit"]

PostCall(content) == [call |-> "axios.post", prompt |-> <<"promptTemplate">> \o content]

\* execSync('git diff --cached') throws: getStagedDiff rethrows and run()
\* catches.
DiffFails ==
    /\ pc = "AwaitDiff"
    /\ Fail(<< [text |-> "[x] Failed to get git diff: ", value |-> GitDiffFailure] >>)
    /\ UNCHANGED <<apiKey, promptTokens, diff, response, commitMessage, answer,
                   calls, stdout>>

\* execSync('git diff --cached') returns: the empty-diff exit, or
\* generateCommitMessage up to the issue of axios.post (the guard first).
DiffReturns ==
    /\ pc = "AwaitDiff"
    /\ \E d \in Diffs(promptTokens) :
        /\ diff' = d
        /\ IF IsEmptyDiff(d.content)
           THEN /\ stdout' = Append(stdout, NoStagedNotice)
                /\ exitCode' = <<0>>
                /\ pc' = "EmptyExit"
                /\ UNCHANGED <<calls, stderr>>
           ELSE IF ExceedsContext(promptTokens + d.tokens)
           THEN /\ Fail(GuardError(promptTokens + d.tokens, d.tokens))
                /\ UNCHANGED <<calls, stdout>>
           ELSE /\ calls' = Append(calls, PostCall(d.content))
                /\ pc' = "AwaitResponse"
                /\ UNCHANGED <<stdout, stderr, exitCode>>
    /\ UNCHANGED <<apiKey, promptTokens, response, commitMessage, answer>>

\* response.data.choices[0].message on a response without candidates
NoCandidateError ==
    [kind |-> "Error",
     message |-> [text |-> "Cannot read properties of undefined (reading 'message')"]]

\* what the catch block of generateCommitMessage receives, if anything
Throws(o) == o.kind # "ok" \/ o.choices = <<>>

Caught(o) == IF o.kind = "ok" THEN NoCandidateError ELSE o

\* variant: the overflow is looked for under status 413
IsContextLengthExceeded_413(err) ==
    /\ err.hasResponse
    /\ err.status = 413
    /\ err.data.type = "object"
    /\ err.data.hasError
    /\ err.data.code = "context_length_exceeded"

\* error.response?.status === 400 &&
\* error.response?.data?.error?.code === 'context_length_exceeded'
IsContextLengthExceeded(err) ==
    /\ err.hasResponse
    /\ err.status = 400
    /\ err.data.type = "object"
    /\ err.data.hasError
    /\ err.data.code = "context_length_exceeded"

\* JavaScript truthiness of error.response?.data
Truthy(data) ==
    \/ data.type = "object"
    \/ data.type = "string" /\ data.text # <<>>

\* template-literal conversion of a truthy payload
ToString(data) ==
    IF data.type = "string" THEN [chars |-> data.text]
                            ELSE [text |-> "[object Object]"]

\* variant: the payload is never put in the error
ErrorDetail_MessageOnly(err) == err.message

\* ${error.response?.data || error.message}
ErrorDetail(err) ==
    IF Truthy(err.data) THEN ToString(err.data) ELSE err.message

\* the Error generateCommitMessage throws for a caught error
GenerateError(err) ==
    IF err.kind = "AxiosError"
    THEN IF IsContextLengthExceeded(err)
         THEN ProviderTooLargeError
         ELSE << [text |-> "[x] Error generating commit message: ",
                  value |-> ErrorDetail(err)] >>
    ELSE << [text |-> "[x] Unexpected error: ",
             value |-> IF err.kind = "Error" THEN err.message
                                            ELSE [text |-> "Unknown error"]] >>

\* console.log(error.response?.data) on the way to the generic Axios error
Logged(err) ==
    IF err.kind = "AxiosError" /\ ~IsContextLengthExceeded(err)
    THEN << << [value |-> err.data] >> >>
    ELSE <<>>

\* response.data.choices[0].message.content.trim()
ExtractContent(o) == Trim(o.choices[1].message.content)

\* axios.post settles: the rest of generateCommitMessage, then run() prints
\* the suggestion and promptUser asks the question.
ResponseArrives ==
    /\ pc = "AwaitResponse"
    /\ \E o \in Outcomes :
        /\ response' = o
        /\ IF Throws(o)
           THEN /\ Fail(GenerateError(Caught(o)))
                /\ stdout' = stdout \o Logged(Caught(o))
                /\ UNCHANGED <<commitMessage, calls>>
           ELSE /\ commitMessage' = ExtractContent(o)
                /\ stdout' = stdout \o << SuggestedHeader, << [chars |-> ExtractContent(o)] >> >>
                /\ calls' = Append(calls, [call |-> "rl.question"])
                /\ pc' = "AwaitAnswer"
                /\ UNCHANGED <<stderr, exitCode>>
    /\ UNCHANGED <<apiKey, promptTokens, diff, answer>>

\* variant: any answer but "n" confirms
ShouldCommit_UnlessNo(a) == ToLowerCase(a) # <<"n">>

\* variant: any answer starting with y confirms
ShouldCommit_Prefix(a) == a # <<>> /\ LowerChar(Head(a)) = "y"

\* variant: the comparison is case-sensitive
ShouldCommit_CaseSensitive(a) == a = <<"y">>

\* promptUser: answer.toLowerCase() === 'y'
ShouldCommit(a) == ToLowerCase(a) = <<"y">>

\* variant: replace without the g flag, only the first quote is escaped
EscapeQuotes_FirstOnly(s) ==
    IF \E i \in 1..Len(s) : s[i] = "\""
    THEN LET i == CHOOSE k \in 1..Len(s) :
                    s[k] = "\"" /\ \A j \in 1..(k - 1) : s[j] # "\""
         IN SubSeq(s, 1, i - 1) \o <<"\\", "\"">> \o SubSeq(s, i + 1, Len(s))
    ELSE s

RECURSIVE EscapeQuotes(_)
\* message.replace(/"/g, '\\"')
EscapeQuotes(s) ==
    IF s = <<>> THEN <<>>
    ELSE (IF Head(s) = "\"" THEN <<"\\", "\"">> ELSE <<Head(s)>>)
         \o EscapeQuotes(Tail(s))

\* `git commit -m "${...}"`
CommitCommand(message) ==
    <<"git commit -m ", "\"">> \o EscapeQuotes(message) \o <<"\"">>

\* the user answers: promptUser resolves, then run() either calls
\* commitChanges or prints the cancellation.
AnswerArrives ==
    /\ pc = "AwaitAnswer"
    /\ \E a \in Answers :
        /\ answer' = a
        /\ IF ShouldCommit(a)
           THEN /\ calls' = Append(calls, [call |-> "git commit",
                                           command |-> CommitCommand(commitMessage)])
                /\ pc' = "AwaitCommit"
                /\ UNCHANGED <<stdout, exitCode>>
           ELSE /\ stdout' = Append(stdout, CancelledNotice)
                /\ exitCode' = <<0>>
                /\ pc' = "Cancelled"
                /\ UNCHANGED calls
    /\ UNCHANGED <<apiKey, promptTokens, diff, response, commitMessage, stderr>>

\* execSync('git commit ...') returns: run() ends normally.
CommitReturns ==
    /\ pc = "AwaitCommit"
    /\ pc' = "Committed"
    /\ exitCode' = <<0>>
    /\ UNCHANGED <<apiKey, promptTokens, diff, response, commitMessage, answer,
                   calls, stdout, stderr>>

\* execSync('git commit ...') throws: commitChanges rethrows and run()
\* catches.
CommitFails ==
    /\ pc = "AwaitCommit"
    /\ Fail(<< [text |-> "[x] Failed to commit: ", value |-> GitCommitFailure] >>)
    /\ UNCHANGED <<apiKey, promptTokens, diff, response, commitMessage, answer,
                   calls, stdout>>

Next ==
    \/ Construct
    \/ DiffFails
    \/ DiffReturns
    \/ ResponseArrives
    \/ AnswerArrives
    \/ CommitReturns
    \/ CommitFails

Spec == Init /\ [][Next]_vars

(***************************************************************************)
(* Vocabulary of the properties.                                           *)
(***************************************************************************)
Issued(name) == {i \in 1..Len(calls) : calls[i].call = name}

CommitInvoked == Issued("git commit") # {}

NetworkCalled == Issued("axios.post") # {}

PromptShown == Issued("rl.question") # {}

DiffFailed ==
    /\ pc = "Failed"
    /\ stderr[1][1].text = "[x] Failed to get git diff: "

\* the diff command has returned its text
DiffFetched == pc \notin {"Start", "Crashed", "AwaitDiff"} /\ ~DiffFailed

AllWhiteSpace(s) == \A i \in 1..Len(s) : s[i] \in WhiteSpace

Answered == answer # NoAnswer

GotSuggestion == response.kind = "ok" /\ response.choices # <<>>

\* m is c without its leading and trailing whitespace
IsTrimOf(m, c) ==
    \E i \in 1..(Len(c) + 1) : \E j \in 0..Len(c) :
        /\ m = SubSeq(c, i, j)
        /\ AllWhiteSpace(SubSeq(c, 1, i - 1))
        /\ AllWhiteSpace(SubSeq(c, j + 1, Len(c)))
        /\ m # <<>> => (m[1] \notin WhiteSpace /\ m[Len(m)] \notin WhiteSpace)

RECURSIVE IsEscapeOf(_, _)
\* arg is m with \" for every " and every other character as it is
IsEscapeOf(arg, m) ==
    IF m = <<>> THEN arg = <<>>
    ELSE IF Head(m) = "\""
         THEN /\ Len(arg) >= 2
              /\ arg[1] = "\\"
              /\ arg[2] = "\""
              /\ IsEscapeOf(SubSeq(arg, 3, Len(arg)), Tail(m))
         ELSE /\ arg # <<>>
              /\ Head(arg) = Head(m)
              /\ IsEscapeOf(Tail(arg), Tail(m))

\* the text between the quotes of a commit command line
MessageArgument(command) == SubSeq(command, 3, Len(command) - 1)

ProviderOverflow ==
    /\ response.kind = "AxiosError"
    /\ response.hasResponse
    /\ response.status = 400
    /\ response.data.type = "object"
    /\ response.data.hasError
    /\ response.data.code = "context_length_exceeded"

\* a payload as the provider sent it: the text of a text body, the object
\* of a JSON body
PayloadVerbatim(data) ==
    IF data.type = "string" THEN [chars |-> data.text] ELSE [value |-> data]

OtherHttpError ==
    /\ response.kind = "AxiosError"
    /\ response.hasResponse
    /\ ~ProviderOverflow

(***************************************************************************)
(* C1.  git commit is invoked only after the context guard passed, the     *)
(* completion request returned a suggestion and the user confirmed, in     *)
(* that order; a run that failed before the commit step has no commit      *)
(* invocation.                                                             *)
(***************************************************************************)
C1_CommitOnlyAfterConfirm ==
    /\ CommitInvoked =>
        /\ promptTokens + diff.tokens <= maxContextLength
        /\ GotSuggestion
        /\ answer \in {<<"y">>, <<"Y">>}
        /\ \E i, j, k \in 1..Len(calls) :
            /\ i < j /\ j < k
            /\ calls[i].call = "axios.post"
            /\ calls[j].call = "rl.question"
            /\ calls[k].call = "git commit"
    /\ (pc = "Failed" /\ ~Answered) => ~CommitInvoked

C1_Witness == pc = "Committed" /\ CommitInvoked

(***************************************************************************)
(* C2.  A staged diff that is empty after trimming ends the run at once:   *)
(* the no-staged-changes notice is the only output, the exit status is 0,  *)
(* and no network call, prompt or commit is issued.                        *)
(***************************************************************************)
C2_EmptyDiffShortCircuit ==
    (DiffFetched /\ AllWhiteSpace(diff.content)) =>
        /\ pc = "EmptyExit"
        /\ stdout = <<NoStagedNotice>>
        /\ stderr = <<>>
        /\ exitCode = <<0>>
        /\ ~NetworkCalled /\ ~PromptShown /\ ~CommitInvoked

C2_Witness == pc = "EmptyExit" /\ diff.content = <<" ", " ">>

(***************************************************************************)
(* C3.  For a non-empty diff, a template+diff token total above the        *)
(* ceiling fails the run before any network call, with an error that       *)
(* reports the total, the diff token count and the ceiling; a total at or  *)
(* below the ceiling passes and the network call is issued.                *)
(***************************************************************************)
C3_ContextGuard ==
    (DiffFetched /\ ~AllWhiteSpace(diff.content)) =>
        IF promptTokens + diff.tokens > 16385
        THEN /\ pc = "Failed"
             /\ ~NetworkCalled
             /\ Len(stderr) = 1
             /\ \E l \in Range(stderr[1]) :
                    l = [text |-> "- Total tokens: ", num |-> promptTokens + diff.tokens]
             /\ \E l \in Range(stderr[1]) :
                    l = [text |-> "- Diff tokens: ", num |-> diff.tokens]
             /\ \E l \in Range(stderr[1]) :
                    l = [text |-> "- Maximum allowed: ", num |-> 16385]
        ELSE NetworkCalled

C3_Witness ==
    /\ pc = "Failed"
    /\ ~AllWhiteSpace(diff.content)
    /\ promptTokens + diff.tokens = 16386
    /\ ~NetworkCalled

(***************************************************************************)
(* C4.  Every answer other than exactly "y" or "Y" declines: no commit is  *)
(* invoked, the cancellation notice is printed and the run ends with       *)
(* status 0.                                                               *)
(***************************************************************************)
C4_DeclinePath ==
    (Answered /\ answer \notin {<<"y">>, <<"Y">>}) =>
        /\ ~CommitInvoked
        /\ pc = "Cancelled"
        /\ stdout[Len(stdout)] = CancelledNotice
        /\ exitCode = <<0>>

C4_Witness == pc = "Cancelled" /\ answer = <<"y", " ">>

(***************************************************************************)
(* C5.  On the answer "y" the commit command is invoked exactly once, and  *)
(* its -m argument is the first candidate's content, trimmed, with every   *)
(* double quote replaced by backslash + double quote and nothing else      *)
(* changed.                                                                *)
(***************************************************************************)
C5_AcceptPath ==
    answer = <<"y">> =>
        /\ Cardinality(Issued("git commit")) = 1
        /\ LET command == calls[CHOOSE i \in Issued("git commit") : TRUE].command
           IN /\ command[1] = "git commit -m "
              /\ command[2] = "\""
              /\ command[Len(command)] = "\""
              /\ \E m \in Contents :
                    /\ IsTrimOf(m, response.choices[1].message.content)
                    /\ IsEscapeOf(MessageArgument(command), m)

C5_Witness ==
    /\ pc = "Committed"
    /\ answer = <<"y">>
    /\ response.choices[1].message.content = <<" ", "\"", "\"">>
    /\ MessageArgument(calls[Len(calls)].command) = <<"\\", "\"", "\\", "\"">>

(***************************************************************************)
(* C6.  A 400 response with code context_length_exceeded fails the run     *)
(* with the context-too-large error of the local guard (its heading and    *)
(* its advice to commit in smaller chunks, and no line the guard's error   *)
(* lacks), whatever the local token estimate was; no prompt is shown and   *)
(* no commit is invoked.                                                   *)
(***************************************************************************)
C6_ProviderOverflow ==
    ProviderOverflow =>
        LET local == GuardError(promptTokens + diff.tokens, diff.tokens)
        IN /\ pc = "Failed"
           /\ exitCode = <<1>>
           /\ Len(stderr) = 1
           /\ stderr[1][1] = local[1]
           /\ stderr[1][Len(stderr[1])] = local[Len(local)]
           /\ Range(stderr[1]) \subseteq Range(local)
           /\ ~PromptShown /\ ~CommitInvoked

C6_Witness ==
    /\ ProviderOverflow
    /\ pc = "Failed"
    /\ promptTokens + diff.tokens = 16385

(***************************************************************************)
(* C7.  With OPENAI_API_KEY absent or empty the process ends with a        *)
(* non-zero status after printing the setup instruction; the staged diff   *)
(* is never fetched and no network call, prompt or commit happens.         *)
(***************************************************************************)
C7_MissingCredential ==
    (~apiKey.defined \/ apiKey.value = "") =>
        /\ calls = <<>>
        /\ pc \in {"Start", "Crashed"}
        /\ pc = "Crashed" =>
            /\ exitCode # <<>> /\ exitCode # <<0>>
            /\ stderr = <<MissingKeyMessage>>
            /\ stdout = <<>>

C7_Witness == pc = "Crashed" /\ apiKey.defined /\ apiKey.value = ""

(***************************************************************************)
(* C8.  Every error raised in run() (diff retrieval, guard rejection, any  *)
(* failure of the completion request including a response without a        *)
(* candidate, commit failure) puts the run in the terminal Failed state:   *)
(* one message on stderr, exit status 1, nothing happens afterwards, and   *)
(* at most one HTTP request was made.                                      *)
(***************************************************************************)
C8_FailedState ==
    /\ Cardinality(Issued("axios.post")) <= 1
    /\ (response.kind \notin {"none", "ok"} \/ (response.kind = "ok" /\ response.choices = <<>>))
         => (pc = "Failed" /\ ~PromptShown /\ ~CommitInvoked
             /\ calls[Len(calls)].call = "axios.post")
    /\ pc = "Failed" =>
        /\ exitCode = <<1>>
        /\ Len(stderr) = 1
        /\ stderr[1] # <<>>

C8_ErrorsAreTerminal == []C8_FailedState /\ [][pc # "Failed"]_vars

C8_Witness ==
    /\ pc = "Failed"
    /\ response.kind = "ok"
    /\ response.choices = <<>>

(***************************************************************************)
(* C9 as stated.  The answers empty line, "Y", "yes" and "n" are all       *)
(* declined: no commit is invoked.                                         *)
(***************************************************************************)
C9_Original ==
    answer \in {<<>>, <<"Y">>, <<"y", "e", "s">>, <<"n">>} => ~CommitInvoked

(***************************************************************************)
(* C9 amended.  The comparison against y ignores case: "y" and "Y" are     *)
(* accepted and the commit command is invoked; the empty line, "yes" and   *)
(* "n" are declined and the commit command is not invoked.                 *)
(***************************************************************************)
C9_CaseInsensitiveAccept ==
    /\ answer \in {<<"y">>, <<"Y">>} =>
          (CommitInvoked /\ pc \in {"AwaitCommit", "Committed", "Failed"})
    /\ answer \in {<<>>, <<"y", "e", "s">>, <<"n">>} =>
          (~CommitInvoked /\ pc = "Cancelled")

C9_Witness == answer = <<"Y">> /\ pc = "Committed"

(***************************************************************************)
(* C10 as stated.  For an HTTP error response other than the context       *)
(* overflow, the error shown to the user contains the provider's payload   *)
(* verbatim and the HTTP status.                                           *)
(***************************************************************************)
C10_Original ==
    OtherHttpError =>
        /\ \E l \in Range(stderr[1]) : l.value = PayloadVerbatim(response.data)
        /\ \E l \in Range(stderr[1]) :
              l.value = StatusMessage(response.status)

(***************************************************************************)
(* C10 amended.  For such a response the payload is written to standard    *)
(* output, and the error shown carries the payload's string form when the  *)
(* payload is non-empty (the text of a text body, [object Object] for a    *)
(* JSON body) and otherwise the HTTP client's message, which is the only   *)
(* place the status appears.                                               *)
(***************************************************************************)
C10_PayloadOrStatus ==
    OtherHttpError =>
        /\ stdout = << << [value |-> response.data] >> >>
        /\ Len(stderr) = 1
        /\ stderr[1][1].text = "[x] Error generating commit message: "
        /\ stderr[1][1].value =
             IF response.data.type = "string" /\ response.data.text # <<>>
             THEN [chars |-> response.data.text]
             ELSE IF response.data.type = "object"
             THEN [text |-> "[object Object]"]
             ELSE [text |-> "Request failed with status code ", num |-> response.status]

C10_Witness ==
    /\ OtherHttpError
    /\ response.status = 401
    /\ response.data.type = "object"
    /\ stderr[1][1].value = [text |-> "[object Object]"]
====
